---- MODULE Spec2Model ----
(***************************************************************************)
(* Token lifecycle of the email verification API (mateusuk/EmailWEBAPI).   *)
(* The program is the express application of src/unnamed/part_000: an      *)
(* in-memory Map of verification tokens, the handlers that mint, consume,  *)
(* inspect and revoke tokens, and the asynchronous call to the mail        *)
(* provider (sgMail.send), the one point where a handler is suspended.     *)
(* src/server.js and src/unnamed/part_001 are earlier revisions of the     *)
(* same file; their verify/check/delete handlers are identical.            *)
(***************************************************************************)
EXTENDS Integers, Sequences, FiniteSets, TLC

(***************************************************************************)
(* Bounds of the model.                                                    *)
(***************************************************************************)
MaxTokens == 2      \* how many identifiers uuidv4() can hand out
MaxTicks == 2       \* how many times the clock advances
MaxPending == 1     \* how many handlers may wait on sgMail.send at once

(***************************************************************************)
(* JavaScript values.  A body field that is absent reads as undefined;     *)
(* the handlers test fields by truthiness.                                 *)
(***************************************************************************)
Undefined == "undefined"
Null == "null"
\* a test that only asks whether the field is there
Truthy_PresentOnly(v) == v \notin {Undefined, Null}

Truthy(v) == v \notin {Undefined, Null, ""}

\* a || b on strings
OrElse(a, b) == IF Truthy(a) THEN a ELSE b

\* String.prototype.includes
Includes(s, m) ==
    \E i \in 1..(Len(s) - Len(m) + 1) : SubSeq(s, i, i + Len(m) - 1) = m

(***************************************************************************)
(* Settings and inputs.                                                    *)
(***************************************************************************)
FRONTEND_URL == "http://localhost:3000"

\* 24 * 60 * 60 * 1000 milliseconds, the validity of a minted token
TokenTtl == 24 * 60 * 60 * 1000

\* the identifiers uuidv4() can return
Uuid(i) == "t" \o ToString(i)
Uuids == {Uuid(i) : i \in 1..MaxTokens}

Emails == {"a@b.com", "x@y.com"}
UserIdInputs == {Undefined, "u1"}
CallbackUrlInputs ==
    {Undefined,
     "https://app/cb",
     "https://idp/a?mode=verifyEmail&oobCode=abc",
     "https://idp/a?oobCode=abc",
     "https://idp/a?mode=verifyEmail",
     "https://x.firebaseapp.com/a"}

\* The request bodies of the create handlers: every body that passes
\* validation, and, for each way of failing it, three bodies: one with nothing
\* else, one with a userId and a ready-made link, one with a userId and a
\* plain callbackUrl.
Body(email, userId, firstName, callbackUrl) ==
    [email |-> email, userId |-> userId, firstName |-> firstName,
     callbackUrl |-> callbackUrl]

RejectedShapes ==
    {<<Undefined, Undefined>>,
     <<"u1", "https://idp/a?oobCode=abc">>,
     <<"u1", "https://app/cb">>}

ValidBodies ==
    {Body(e, u, "Ann", c) : e \in Emails, u \in UserIdInputs, c \in CallbackUrlInputs}

MissingEmailBodies ==
    {Body(e, x[1], "Ann", x[2]) : e \in {Undefined, ""}, x \in RejectedShapes}

MissingFirstNameBodies ==
    {Body(e, x[1], f, x[2]) : e \in {"a@b.com", Undefined}, f \in {Undefined, ""},
                              x \in RejectedShapes}

CreateBodies == ValidBodies \cup MissingEmailBodies
WelcomeBodies == CreateBodies \cup MissingFirstNameBodies

\* token strings a client can present: minted or not, and a made-up one
PathTokens == Uuids \cup {"bogus"}
BodyTokens == PathTokens \cup {Undefined, ""}

\* error.message of a rejected sgMail.send
ProviderError == "Unauthorized"
MailOutcomes == {"ok", "fail"}

VARIABLES
    verificationTokens, \* the Map: token -> record
    now,                \* Date.now(), counted from the start of the process
    issued,             \* the identifiers uuidv4() has returned so far
    pending,            \* handlers suspended at await sgMail.send(msg): what each
                        \* was asked, the token it minted, the link in its message
    response,           \* the last response sent, with the request it answers
    created,            \* history: token -> what its create request supplied
    okConsumes          \* history: token -> number of 200 answers to consume

vars == <<verificationTokens, now, issued, pending, response, created, okConsumes>>

NoResponse == [op |-> "none"]

Init ==
    /\ verificationTokens = <<>>
    /\ now = 0
    /\ issued = {}
    /\ pending = <<>>
    /\ response = NoResponse
    /\ created = <<>>
    /\ okConsumes = [t \in PathTokens |-> 0]

(***************************************************************************)
(* The Map operations the handlers use.                                    *)
(***************************************************************************)
MapHas(m, k) == k \in DOMAIN m
MapSet(m, k, v) == [x \in DOMAIN m \cup {k} |-> IF x = k THEN v ELSE m[x]]
\* a delete that removes nothing
MapDelete_Keeps(m, k) == m

\* a delete that empties the map
MapDelete_Clears(m, k) == <<>>

MapDelete(m, k) == [x \in DOMAIN m \ {k} |-> m[x]]
\* a size that leaves out the entries past their expiry
MapSize_LiveOnly(m) == Cardinality({k \in DOMAIN m : now <= m[k].expiresAt})

MapSize(m) == Cardinality(DOMAIN m)

\* remove the i-th element of a sequence
RemoveAt(s, i) == SubSeq(s, 1, i - 1) \o SubSeq(s, i + 1, Len(s))

(***************************************************************************)
(* The clock.  It advances by a millisecond or by a whole validity         *)
(* period, so that both sides of an expiry instant are visited.            *)
(***************************************************************************)
TicksTaken == (now % TokenTtl) + (now \div TokenTtl)

Tick(d) ==
    /\ TicksTaken < MaxTicks
    /\ now' = now + d
    /\ UNCHANGED <<verificationTokens, issued, pending, response, created, okConsumes>>

(***************************************************************************)
(* The create handlers.  Each runs in one step up to await sgMail.send     *)
(* (validation, the choice between the caller's link and a minted token,   *)
(* the store put, the message) and in a second step once the mail call     *)
(* has resolved or rejected.  At most MaxPending handlers wait at once.    *)
(***************************************************************************)
OpSend == "POST /api/send-verification"
OpResend == "POST /api/resend-verification"
OpWelcome == "POST /api/send-welcome-purchase"
OpGetVerify == "GET /api/verify/:token"
OpPostVerify == "POST /api/verify"
OpCheck == "GET /api/check/:token"
OpDelete == "DELETE /api/token/:token"
OpHealth == "GET /health"

\* a test that forgets the verify-email mode marker
IsDirectLink_OobCodeOnly(callbackUrl) ==
    /\ Truthy(callbackUrl)
    /\ Includes(callbackUrl, "oobCode=")

\* the test of send-verification and resend-verification for a ready-made link
IsDirectLink(callbackUrl) ==
    /\ Truthy(callbackUrl)
    /\ \/ Includes(callbackUrl, "oobCode=")
       \/ Includes(callbackUrl, "mode=verifyEmail")

\* the test of send-welcome-purchase for a ready-made link
IsFirebaseLink(callbackUrl) ==
    /\ Truthy(callbackUrl)
    /\ \/ Includes(callbackUrl, "oobCode=")
       \/ Includes(callbackUrl, "firebaseapp.com")
       \/ Includes(callbackUrl, "mode=verifyEmail")

\* a record that keeps userId as it came
NewRecord_RawUserId(email, userId) ==
    [email |-> email,
     userId |-> userId,
     expiresAt |-> now + TokenTtl,
     verified |-> FALSE]

\* the record a create request stores
NewRecord(email, userId) ==
    [email |-> email,
     userId |-> OrElse(userId, Null),
     expiresAt |-> now + TokenTtl,
     verified |-> FALSE]

\* a link that always goes to the default frontend
TokenUrl_DefaultOnly(callbackUrl, token) ==
    FRONTEND_URL \o "/verify?token=" \o token

\* the link built around a minted token
TokenUrl(callbackUrl, token) ==
    IF Truthy(callbackUrl)
    THEN callbackUrl \o "?token=" \o token
    ELSE FRONTEND_URL \o "/verify?token=" \o token

\* a validation answer that carries the error text alone
Reply400_Bare(op, error) ==
    [op |-> op, mail |-> "none", status |-> 400, body |-> [error |-> error]]

\* res.status(400).json({success: false, error})
Reply400(op, error) ==
    [op |-> op, mail |-> "none", status |-> 400,
     body |-> [success |-> FALSE, error |-> error]]

\* a handler that answers before its mail call and again after it
PassThrough_AnswersEarly(op, email, callbackUrl) ==
    /\ pending' = Append(pending,
          [op |-> op, email |-> email, callbackUrl |-> callbackUrl,
           token |-> Undefined, verificationUrl |-> callbackUrl])
    /\ response' = [op |-> op, mail |-> "none", status |-> 200,
                    body |-> [success |-> TRUE, message |-> "accepted"]]
    /\ UNCHANGED <<verificationTokens, now, issued, created, okConsumes>>

\* the handler reaches await sgMail.send(msg) with the caller's link
PassThrough(op, email, callbackUrl) ==
    /\ pending' = Append(pending,
          [op |-> op, email |-> email, callbackUrl |-> callbackUrl,
           token |-> Undefined, verificationUrl |-> callbackUrl])
    /\ UNCHANGED <<verificationTokens, now, issued, response, created, okConsumes>>

\* a generator that may return an identifier again
FreshUuids_MayRepeat == Uuids

\* what uuidv4() can return next: an identifier it has not returned before
FreshUuids == Uuids \ issued

\* the handler mints a token, stores its record and reaches await sgMail.send(msg)
Fallback(op, email, userId, callbackUrl) ==
    /\ \E token \in FreshUuids :
          /\ issued' = issued \cup {token}
          /\ verificationTokens' = MapSet(verificationTokens, token, NewRecord(email, userId))
          /\ created' = MapSet(created, token,
                [email |-> email, userId |-> userId])
          /\ pending' = Append(pending,
                [op |-> op, email |-> email, callbackUrl |-> callbackUrl,
                 token |-> token, verificationUrl |-> TokenUrl(callbackUrl, token)])
    /\ UNCHANGED <<now, response, okConsumes>>

SendVerification(email, userId, callbackUrl) ==
    IF ~Truthy(email)
    THEN /\ response' = Reply400(OpSend, "Email is required")
         /\ UNCHANGED <<verificationTokens, now, issued, pending, created, okConsumes>>
    ELSE /\ Len(pending) < MaxPending
         /\ IF IsDirectLink(callbackUrl)
            THEN PassThrough(OpSend, email, callbackUrl)
            ELSE Fallback(OpSend, email, userId, callbackUrl)

ResendVerification(email, userId, callbackUrl) ==
    IF ~Truthy(email)
    THEN /\ response' = Reply400(OpResend, "Email is required")
         /\ UNCHANGED <<verificationTokens, now, issued, pending, created, okConsumes>>
    ELSE /\ Len(pending) < MaxPending
         /\ IF IsDirectLink(callbackUrl)
            THEN PassThrough(OpResend, email, callbackUrl)
            ELSE Fallback(OpResend, email, userId, callbackUrl)

SendWelcomePurchase(email, userId, firstName, callbackUrl) ==
    IF ~Truthy(email) \/ ~Truthy(firstName)
    THEN /\ response' = Reply400(OpWelcome, "Email and firstName are required")
         /\ UNCHANGED <<verificationTokens, now, issued, pending, created, okConsumes>>
    ELSE /\ Len(pending) < MaxPending
         /\ IF IsFirebaseLink(callbackUrl)
            THEN PassThrough(OpWelcome, email, callbackUrl)
            ELSE Fallback(OpWelcome, email, userId, callbackUrl)

(***************************************************************************)
(* After the mail call.  A rejected send is caught and answered 500 with   *)
(* the provider's message.  After a resolved send, send-verification and   *)
(* send-welcome-purchase build {success, message, token}: `token` is       *)
(* declared with const inside the else block of the decision, so it is not *)
(* in scope here, reading it throws ReferenceError inside the try block,   *)
(* and the catch clause answers 500.                                       *)
(***************************************************************************)
ReferenceError(name) == name \o " is not defined"

\* a catch clause that hides the cause behind the generic message
Reply500_Generic(p, mail, error, details) ==
    [op |-> p.op, mail |-> mail, status |-> 500,
     body |-> [success |-> FALSE, error |-> error, details |-> error]]

\* the catch clause: res.status(500).json({success: false, error, details})
Reply500(p, mail, error, details) ==
    [op |-> p.op, mail |-> mail, status |-> 500,
     body |-> [success |-> FALSE, error |-> error, details |-> details]]

\* res.json({success: true, message})
Reply200(p, message) ==
    [op |-> p.op, mail |-> "ok", status |-> 200,
     body |-> [success |-> TRUE, message |-> message]]

SendVerificationReply(i, outcome) ==
    /\ i \in 1..Len(pending)
    /\ pending[i].op = OpSend
    /\ pending' = RemoveAt(pending, i)
    /\ response' =
          IF outcome = "ok"
          THEN Reply500(pending[i], "ok", "Failed to send verification email",
                        ReferenceError("token"))
          ELSE Reply500(pending[i], "fail", "Failed to send verification email",
                        ProviderError)
    /\ UNCHANGED <<verificationTokens, now, issued, created, okConsumes>>

ResendVerificationReply(i, outcome) ==
    /\ i \in 1..Len(pending)
    /\ pending[i].op = OpResend
    /\ pending' = RemoveAt(pending, i)
    /\ response' =
          IF outcome = "ok"
          THEN Reply200(pending[i], "Verification email resent successfully")
          ELSE Reply500(pending[i], "fail", "Failed to resend verification email",
                        ProviderError)
    /\ UNCHANGED <<verificationTokens, now, issued, created, okConsumes>>

SendWelcomePurchaseReply(i, outcome) ==
    /\ i \in 1..Len(pending)
    /\ pending[i].op = OpWelcome
    /\ pending' = RemoveAt(pending, i)
    /\ response' =
          IF outcome = "ok"
          THEN Reply500(pending[i], "ok", "Failed to send welcome email",
                        ReferenceError("token"))
          ELSE Reply500(pending[i], "fail", "Failed to send welcome email",
                        ProviderError)
    /\ UNCHANGED <<verificationTokens, now, issued, created, okConsumes>>

(***************************************************************************)
(* send-verification as src/server.js has it: no pass-through branch, the  *)
(* token is declared at the top of the try block, a record is stored for   *)
(* every valid request, and after a resolved mail call the reply carries   *)
(* the token.                                                              *)
(***************************************************************************)
ServerSendVerification(email, userId, callbackUrl) ==
    IF ~Truthy(email)
    THEN /\ response' = Reply400(OpSend, "Email is required")
         /\ UNCHANGED <<verificationTokens, now, issued, pending, created, okConsumes>>
    ELSE /\ Len(pending) < MaxPending
         /\ Fallback(OpSend, email, userId, callbackUrl)

\* res.json({success: true, message, token})
Reply200Token(p, message) ==
    [op |-> p.op, mail |-> "ok", status |-> 200,
     body |-> [success |-> TRUE, message |-> message, token |-> p.token]]

ServerSendVerificationReply(i, outcome) ==
    /\ i \in 1..Len(pending)
    /\ pending[i].op = OpSend
    /\ pending' = RemoveAt(pending, i)
    /\ response' =
          IF outcome = "ok"
          THEN Reply200Token(pending[i], "Verification email sent successfully")
          ELSE Reply500(pending[i], "fail", "Failed to send verification email",
                        ProviderError)
    /\ UNCHANGED <<verificationTokens, now, issued, created, okConsumes>>

(***************************************************************************)
(* The other mail handlers: transfer notification, device added, invoice.  *)
(* They validate the body, build the message and wait on sgMail.send; they *)
(* never touch the token store.  A body is a record holding the fields the *)
(* request supplies.                                                       *)
(***************************************************************************)
OpTransfer == "POST /api/send-transfer-notification"
OpDeviceAdded == "POST /api/send-device-added"
OpInvoice == "POST /api/send-invoice"

\* body.name after destructuring: undefined when the body has no such field
Field(body, name) == IF name \in DOMAIN body THEN body[name] ELSE Undefined

\* truthiness of a field that holds an object: any object is truthy
HasObject(body, name) == name \in DOMAIN body

\* String(v) inside a template literal: undefined prints as "undefined"
Str(v) == IF v = Undefined THEN "undefined" ELSE v

\* encodeURIComponent on the characters the inputs use
EscapeChar(c) ==
    IF c = "@" THEN "%40"
    ELSE IF c = "/" THEN "%2F"
    ELSE IF c = ":" THEN "%3A"
    ELSE IF c = " " THEN "%20"
    ELSE c

RECURSIVE EncodeURIComponent(_)
EncodeURIComponent(s) ==
    IF Len(s) = 0 THEN ""
    ELSE EscapeChar(SubSeq(s, 1, 1)) \o EncodeURIComponent(SubSeq(s, 2, Len(s)))

TransferBodies ==
    {[email |-> "a@b.com", transferId |-> "tr 1",
      trackerDetails |-> [imei |-> "8601", vehicleName |-> "Van"]],
     [email |-> "a@b.com", transferId |-> "tr 1",
      trackerDetails |-> [vehicleName |-> "Van"]],
     [email |-> "a@b.com", transferId |-> "tr 1",
      trackerDetails |-> [imei |-> "8601"]],
     [email |-> "a@b.com", transferId |-> "tr 1"],
     [email |-> "a@b.com", trackerDetails |-> [imei |-> "8601", vehicleName |-> "Van"]],
     [email |-> "", transferId |-> "tr 1",
      trackerDetails |-> [imei |-> "8601", vehicleName |-> "Van"]]}

DeviceAddedBodies ==
    {[email |-> "a@b.com", firstName |-> "Ann", vehicleName |-> "Van", planName |-> "Monthly"],
     [email |-> "a@b.com", firstName |-> "Ann", vehicleName |-> "Van"],
     [email |-> "a@b.com", firstName |-> "Ann", vehicleName |-> "Van", planName |-> ""],
     [email |-> "a@b.com", firstName |-> "Ann", planName |-> "Monthly"],
     [email |-> "a@b.com", vehicleName |-> "Van", planName |-> "Monthly"],
     [firstName |-> "Ann", vehicleName |-> "Van", planName |-> "Monthly"]}

InvoiceBodies ==
    {[email |-> "a@b.com", invoiceId |-> "in1", amount |-> "7.99", invoiceUrl |-> "https://pay/in1"],
     [email |-> "a@b.com", invoiceId |-> "in1", amount |-> "7.99"],
     [email |-> "a@b.com", invoiceId |-> "in1", invoiceUrl |-> "https://pay/in1"],
     [email |-> "a@b.com", amount |-> "7.99", invoiceUrl |-> "https://pay/in1"],
     [invoiceId |-> "in1", amount |-> "7.99", invoiceUrl |-> "https://pay/in1"]}

SendTransferNotification(body) ==
    LET email == Field(body, "email")
        transferId == Field(body, "transferId")
    IN IF ~Truthy(email) \/ ~Truthy(transferId) \/ ~HasObject(body, "trackerDetails")
       THEN /\ response' = Reply400(OpTransfer,
                   "Email, transferId, and trackerDetails are required")
            /\ UNCHANGED <<verificationTokens, now, issued, pending, created, okConsumes>>
       ELSE LET trackerDetails == body.trackerDetails
                imei == Field(trackerDetails, "imei")
                vehicleName == Field(trackerDetails, "vehicleName")
                acceptUrl == FRONTEND_URL \o "/register?imei="
                                \o EncodeURIComponent(Str(imei))
                                \o "&transferId=" \o EncodeURIComponent(Str(transferId))
                                \o "&email=" \o EncodeURIComponent(Str(email))
            IN /\ Len(pending) < MaxPending
               /\ pending' = Append(pending,
                     [op |-> OpTransfer, email |-> email, acceptUrl |-> acceptUrl,
                      subject |-> OrElse(vehicleName, "GPS Tracker"),
                      vehicle |-> Str(vehicleName), imei |-> Str(imei)])
               /\ UNCHANGED <<verificationTokens, now, issued, response, created, okConsumes>>

SendDeviceAdded(body) ==
    LET email == Field(body, "email")
        firstName == Field(body, "firstName")
        vehicleName == Field(body, "vehicleName")
        planName == Field(body, "planName")
    IN IF ~Truthy(email) \/ ~Truthy(firstName) \/ ~Truthy(vehicleName)
       THEN /\ response' = Reply400(OpDeviceAdded,
                   "Email, firstName, and vehicleName are required")
            /\ UNCHANGED <<verificationTokens, now, issued, pending, created, okConsumes>>
       ELSE /\ Len(pending) < MaxPending
            /\ pending' = Append(pending,
                  [op |-> OpDeviceAdded, email |-> email, firstName |-> firstName,
                   subject |-> vehicleName, plan |-> Str(planName)])
            /\ UNCHANGED <<verificationTokens, now, issued, response, created, okConsumes>>

SendInvoice(body) ==
    LET email == Field(body, "email")
        invoiceId == Field(body, "invoiceId")
        amount == Field(body, "amount")
        invoiceUrl == Field(body, "invoiceUrl")
    IN IF ~Truthy(email) \/ ~Truthy(invoiceId) \/ ~Truthy(amount) \/ ~Truthy(invoiceUrl)
       THEN /\ response' = Reply400(OpInvoice,
                   "Email, invoiceId, amount, and invoiceUrl are required")
            /\ UNCHANGED <<verificationTokens, now, issued, pending, created, okConsumes>>
       ELSE /\ Len(pending) < MaxPending
            /\ pending' = Append(pending,
                  [op |-> OpInvoice, email |-> email, invoiceId |-> invoiceId,
                   amount |-> amount, invoiceUrl |-> invoiceUrl])
            /\ UNCHANGED <<verificationTokens, now, issued, response, created, okConsumes>>

\* the message and the error text of the three handlers' answers
SentMessage(op) ==
    IF op = OpTransfer THEN "Transfer notification email sent successfully"
    ELSE IF op = OpDeviceAdded THEN "Device added email sent successfully"
    ELSE "Invoice email sent successfully"

FailedMessage(op) ==
    IF op = OpTransfer THEN "Failed to send transfer notification email"
    ELSE IF op = OpDeviceAdded THEN "Failed to send device added email"
    ELSE "Failed to send invoice email"

\* after the mail call of a transfer, device-added or invoice request
NotificationReply(i, outcome) ==
    /\ i \in 1..Len(pending)
    /\ pending[i].op \in {OpTransfer, OpDeviceAdded, OpInvoice}
    /\ pending' = RemoveAt(pending, i)
    /\ response' =
          IF outcome = "ok"
          THEN Reply200(pending[i], SentMessage(pending[i].op))
          ELSE Reply500(pending[i], "fail", FailedMessage(pending[i].op), ProviderError)
    /\ UNCHANGED <<verificationTokens, now, issued, created, okConsumes>>

(***************************************************************************)
(* The token handlers: consume (by path and by body), inspect, revoke,     *)
(* and the health report.  None of them is suspended.                      *)
(***************************************************************************)
\* an expiry test that counts the expiry instant itself as expired
IsExpired_Inclusive(tokenData) == now >= tokenData.expiresAt

\* Date.now() > tokenData.expiresAt
IsExpired(tokenData) == now > tokenData.expiresAt

\* a consume that forgets to set the flag
MarkVerified_Forgets(tokenData) == tokenData

\* a consume that also renews the validity of the record
MarkVerified_Renews(tokenData) ==
    [tokenData EXCEPT !.verified = TRUE, !.expiresAt = now + TokenTtl]

\* tokenData.verified = true
MarkVerified(tokenData) == [tokenData EXCEPT !.verified = TRUE]

\* an answer that reports a missing record as gone
TokenReply_Gone(op, token, status, body) ==
    [op |-> op, token |-> token, status |-> IF status = 404 THEN 410 ELSE status,
     body |-> body]

\* the answer of a token handler
TokenReply(op, token, status, body) ==
    [op |-> op, token |-> token, status |-> status, body |-> body]

\* a by-path consume that tests the verified flag before the expiry
GetVerify_VerifiedFirst(token) ==
    IF ~MapHas(verificationTokens, token)
    THEN /\ response' = TokenReply(OpGetVerify, token, 404,
                [success |-> FALSE, error |-> "Invalid or not found token"])
         /\ UNCHANGED <<verificationTokens, now, issued, pending, created, okConsumes>>
    ELSE LET tokenData == verificationTokens[token] IN
         IF tokenData.verified
         THEN /\ response' = TokenReply(OpGetVerify, token, 400,
                     [success |-> FALSE, error |-> "Email has already been verified"])
              /\ UNCHANGED <<verificationTokens, now, issued, pending, created, okConsumes>>
         ELSE IF IsExpired(tokenData)
              THEN /\ verificationTokens' = MapDelete(verificationTokens, token)
                   /\ response' = TokenReply(OpGetVerify, token, 410,
                          [success |-> FALSE, error |-> "Token has expired"])
                   /\ UNCHANGED <<now, issued, pending, created, okConsumes>>
              ELSE /\ verificationTokens' = MapSet(verificationTokens, token,
                          MarkVerified(tokenData))
                   /\ response' = TokenReply(OpGetVerify, token, 200,
                          [success |-> TRUE, message |-> "Email verified successfully!",
                           email |-> tokenData.email, userId |-> tokenData.userId])
                   /\ okConsumes' = [okConsumes EXCEPT ![token] = @ + 1]
                   /\ UNCHANGED <<now, issued, pending, created>>

GetVerify(token) ==
    IF ~MapHas(verificationTokens, token)
    THEN /\ response' = TokenReply(OpGetVerify, token, 404,
                [success |-> FALSE, error |-> "Invalid or not found token"])
         /\ UNCHANGED <<verificationTokens, now, issued, pending, created, okConsumes>>
    ELSE LET tokenData == verificationTokens[token] IN
         IF IsExpired(tokenData)
         THEN /\ verificationTokens' = MapDelete(verificationTokens, token)
              /\ response' = TokenReply(OpGetVerify, token, 410,
                     [success |-> FALSE, error |-> "Token has expired"])
              /\ UNCHANGED <<now, issued, pending, created, okConsumes>>
         ELSE IF tokenData.verified
              THEN /\ response' = TokenReply(OpGetVerify, token, 400,
                          [success |-> FALSE, error |-> "Email has already been verified"])
                   /\ UNCHANGED <<verificationTokens, now, issued, pending, created, okConsumes>>
              ELSE /\ verificationTokens' = MapSet(verificationTokens, token,
                          MarkVerified(tokenData))
                   /\ response' = TokenReply(OpGetVerify, token, 200,
                          [success |-> TRUE, message |-> "Email verified successfully!",
                           email |-> tokenData.email, userId |-> tokenData.userId])
                   /\ okConsumes' = [okConsumes EXCEPT ![token] = @ + 1]
                   /\ UNCHANGED <<now, issued, pending, created>>

\* a by-body consume that reports an expired record and leaves it in the store
PostVerify_KeepsExpired(token) ==
    IF ~Truthy(token)
    THEN /\ response' = TokenReply(OpPostVerify, token, 400,
                [success |-> FALSE, error |-> "Token is required"])
         /\ UNCHANGED <<verificationTokens, now, issued, pending, created, okConsumes>>
    ELSE IF ~MapHas(verificationTokens, token)
    THEN /\ response' = TokenReply(OpPostVerify, token, 404,
                [success |-> FALSE, error |-> "Invalid or not found token"])
         /\ UNCHANGED <<verificationTokens, now, issued, pending, created, okConsumes>>
    ELSE LET tokenData == verificationTokens[token] IN
         IF IsExpired(tokenData)
         THEN /\ response' = TokenReply(OpPostVerify, token, 410,
                     [success |-> FALSE, error |-> "Token has expired"])
              /\ UNCHANGED <<verificationTokens, now, issued, pending, created, okConsumes>>
         ELSE IF tokenData.verified
              THEN /\ response' = TokenReply(OpPostVerify, token, 400,
                          [success |-> FALSE, error |-> "Email has already been verified"])
                   /\ UNCHANGED <<verificationTokens, now, issued, pending, created, okConsumes>>
              ELSE /\ verificationTokens' = MapSet(verificationTokens, token,
                          MarkVerified(tokenData))
                   /\ response' = TokenReply(OpPostVerify, token, 200,
                          [success |-> TRUE, message |-> "Email verified successfully!",
                           email |-> tokenData.email, userId |-> tokenData.userId])
                   /\ okConsumes' = [okConsumes EXCEPT ![token] = @ + 1]
                   /\ UNCHANGED <<now, issued, pending, created>>

PostVerify(token) ==
    IF ~Truthy(token)
    THEN /\ response' = TokenReply(OpPostVerify, token, 400,
                [success |-> FALSE, error |-> "Token is required"])
         /\ UNCHANGED <<verificationTokens, now, issued, pending, created, okConsumes>>
    ELSE IF ~MapHas(verificationTokens, token)
    THEN /\ response' = TokenReply(OpPostVerify, token, 404,
                [success |-> FALSE, error |-> "Invalid or not found token"])
         /\ UNCHANGED <<verificationTokens, now, issued, pending, created, okConsumes>>
    ELSE LET tokenData == verificationTokens[token] IN
         IF IsExpired(tokenData)
         THEN /\ verificationTokens' = MapDelete(verificationTokens, token)
              /\ response' = TokenReply(OpPostVerify, token, 410,
                     [success |-> FALSE, error |-> "Token has expired"])
              /\ UNCHANGED <<now, issued, pending, created, okConsumes>>
         ELSE IF tokenData.verified
              THEN /\ response' = TokenReply(OpPostVerify, token, 400,
                          [success |-> FALSE, error |-> "Email has already been verified"])
                   /\ UNCHANGED <<verificationTokens, now, issued, pending, created, okConsumes>>
              ELSE /\ verificationTokens' = MapSet(verificationTokens, token,
                          MarkVerified(tokenData))
                   /\ response' = TokenReply(OpPostVerify, token, 200,
                          [success |-> TRUE, message |-> "Email verified successfully!",
                           email |-> tokenData.email, userId |-> tokenData.userId])
                   /\ okConsumes' = [okConsumes EXCEPT ![token] = @ + 1]
                   /\ UNCHANGED <<now, issued, pending, created>>

\* new Date(ms).toISOString(): the instant as text
ToISOString(ms) == "T+" \o ToString(ms) \o "ms"

\* an inspect that counts the expiry instant itself as expired
CheckReply_Inclusive(token) ==
    IF ~MapHas(verificationTokens, token)
    THEN TokenReply(OpCheck, token, 404,
             [success |-> FALSE, error |-> "Token not found"])
    ELSE LET tokenData == verificationTokens[token]
             isExpired == now >= tokenData.expiresAt
         IN TokenReply(OpCheck, token, 200,
                [success |-> TRUE, email |-> tokenData.email,
                 verified |-> tokenData.verified, expired |-> isExpired,
                 expiresAt |-> ToISOString(tokenData.expiresAt)])

\* what GET /api/check/:token answers in the current state
CheckReply(token) ==
    IF ~MapHas(verificationTokens, token)
    THEN TokenReply(OpCheck, token, 404,
             [success |-> FALSE, error |-> "Token not found"])
    ELSE LET tokenData == verificationTokens[token]
             isExpired == IsExpired(tokenData)
         IN TokenReply(OpCheck, token, 200,
                [success |-> TRUE, email |-> tokenData.email,
                 verified |-> tokenData.verified, expired |-> isExpired,
                 expiresAt |-> ToISOString(tokenData.expiresAt)])

\* an inspect that enforces expiry: it evicts the record it reports as expired
CheckToken_Evicts(token) ==
    /\ response' = CheckReply(token)
    /\ verificationTokens' =
          IF MapHas(verificationTokens, token) /\ IsExpired(verificationTokens[token])
          THEN MapDelete(verificationTokens, token)
          ELSE verificationTokens
    /\ UNCHANGED <<now, issued, pending, created, okConsumes>>

CheckToken(token) ==
    /\ response' = CheckReply(token)
    /\ UNCHANGED <<verificationTokens, now, issued, pending, created, okConsumes>>

\* a revoke that runs the tests of consume before it deletes
DeleteToken_Guarded(token) ==
    IF ~MapHas(verificationTokens, token)
    THEN /\ response' = TokenReply(OpDelete, token, 404,
                [success |-> FALSE, error |-> "Token not found"])
         /\ UNCHANGED <<verificationTokens, now, issued, pending, created, okConsumes>>
    ELSE IF IsExpired(verificationTokens[token])
    THEN /\ verificationTokens' = MapDelete(verificationTokens, token)
         /\ response' = TokenReply(OpDelete, token, 410,
                [success |-> FALSE, error |-> "Token has expired"])
         /\ UNCHANGED <<now, issued, pending, created, okConsumes>>
    ELSE IF verificationTokens[token].verified
    THEN /\ response' = TokenReply(OpDelete, token, 400,
                [success |-> FALSE, error |-> "Email has already been verified"])
         /\ UNCHANGED <<verificationTokens, now, issued, pending, created, okConsumes>>
    ELSE /\ verificationTokens' = MapDelete(verificationTokens, token)
         /\ response' = TokenReply(OpDelete, token, 200,
                [success |-> TRUE, message |-> "Token removed"])
         /\ UNCHANGED <<now, issued, pending, created, okConsumes>>

DeleteToken(token) ==
    IF MapHas(verificationTokens, token)
    THEN /\ verificationTokens' = MapDelete(verificationTokens, token)
         /\ response' = TokenReply(OpDelete, token, 200,
                [success |-> TRUE, message |-> "Token removed"])
         /\ UNCHANGED <<now, issued, pending, created, okConsumes>>
    ELSE /\ response' = TokenReply(OpDelete, token, 404,
                [success |-> FALSE, error |-> "Token not found"])
         /\ UNCHANGED <<verificationTokens, now, issued, pending, created, okConsumes>>

\* a health report that sweeps the records past their expiry
Health_Sweeps ==
    /\ response' = [op |-> OpHealth, status |-> 200,
                    body |-> [status |-> "ok", timestamp |-> ToISOString(now),
                              tokensInMemory |-> MapSize(verificationTokens)]]
    /\ verificationTokens' =
          [t \in {x \in DOMAIN verificationTokens : ~IsExpired(verificationTokens[x])}
             |-> verificationTokens[t]]
    /\ UNCHANGED <<now, issued, pending, created, okConsumes>>

Health ==
    /\ response' = [op |-> OpHealth, status |-> 200,
                    body |-> [status |-> "ok", timestamp |-> ToISOString(now),
                              tokensInMemory |-> MapSize(verificationTokens)]]
    /\ UNCHANGED <<verificationTokens, now, issued, pending, created, okConsumes>>

(***************************************************************************)
(* The program.  Any request may arrive at any time, the mail provider may *)
(* answer either way, and time passes.  Spec follows the life of tokens:   *)
(* every token handler, with tokens minted by send-verification requests   *)
(* that carry no callbackUrl (one without a userId, one with a userId, one *)
(* without an email).  SpecCreate follows the create requests:             *)
(* the three create handlers over every kind of body.                      *)
(***************************************************************************)
LifecycleBodies ==
    {Body("a@b.com", Undefined, Undefined, Undefined),
     Body("x@y.com", "u1", Undefined, Undefined),
     Body(Undefined, Undefined, Undefined, Undefined)}

Next ==
    \/ \E b \in LifecycleBodies : SendVerification(b.email, b.userId, b.callbackUrl)
    \/ \E i \in 1..MaxPending, outcome \in MailOutcomes : SendVerificationReply(i, outcome)
    \/ \E token \in PathTokens : GetVerify(token)
    \/ \E token \in BodyTokens : PostVerify(token)
    \/ \E token \in PathTokens : CheckToken(token)
    \/ \E token \in PathTokens : DeleteToken(token)
    \/ Health
    \/ \E d \in {1, TokenTtl} : Tick(d)

Spec == Init /\ [][Next]_vars

NextCreate ==
    \/ \E b \in CreateBodies : SendVerification(b.email, b.userId, b.callbackUrl)
    \/ \E b \in CreateBodies : ResendVerification(b.email, b.userId, b.callbackUrl)
    \/ \E b \in WelcomeBodies :
          SendWelcomePurchase(b.email, b.userId, b.firstName, b.callbackUrl)
    \/ \E i \in 1..MaxPending, outcome \in MailOutcomes : SendVerificationReply(i, outcome)
    \/ \E i \in 1..MaxPending, outcome \in MailOutcomes : ResendVerificationReply(i, outcome)
    \/ \E i \in 1..MaxPending, outcome \in MailOutcomes : SendWelcomePurchaseReply(i, outcome)
    \/ Tick(1)

SpecCreate == Init /\ [][NextCreate]_vars

\* SpecServer runs the service of src/server.js: its send-verification and the
\* token handlers, which it shares with the later revision.
NextServer ==
    \/ \E b \in LifecycleBodies : ServerSendVerification(b.email, b.userId, b.callbackUrl)
    \/ \E i \in 1..MaxPending, outcome \in MailOutcomes :
          ServerSendVerificationReply(i, outcome)
    \/ \E token \in PathTokens : GetVerify(token)
    \/ \E token \in BodyTokens : PostVerify(token)
    \/ \E token \in PathTokens : CheckToken(token)
    \/ \E token \in PathTokens : DeleteToken(token)
    \/ Health
    \/ \E d \in {1, TokenTtl} : Tick(d)

SpecServer == Init /\ [][NextServer]_vars

\* SpecService runs every endpoint of the service, each over a few bodies:
\* one that passes validation for each branch, and one for each way of
\* failing it.
ServiceBodies ==
    {Body("a@b.com", "u1", "Ann", Undefined),
     Body("a@b.com", Undefined, "Ann", "https://idp/a?oobCode=abc"),
     Body(Undefined, "u1", "Ann", Undefined),
     Body("a@b.com", "u1", Undefined, Undefined)}

NextService ==
    \/ \E b \in ServiceBodies : SendVerification(b.email, b.userId, b.callbackUrl)
    \/ \E b \in ServiceBodies : ResendVerification(b.email, b.userId, b.callbackUrl)
    \/ \E b \in ServiceBodies :
          SendWelcomePurchase(b.email, b.userId, b.firstName, b.callbackUrl)
    \/ \E b \in TransferBodies : SendTransferNotification(b)
    \/ \E b \in DeviceAddedBodies : SendDeviceAdded(b)
    \/ \E b \in InvoiceBodies : SendInvoice(b)
    \/ \E i \in 1..MaxPending, outcome \in MailOutcomes : SendVerificationReply(i, outcome)
    \/ \E i \in 1..MaxPending, outcome \in MailOutcomes : ResendVerificationReply(i, outcome)
    \/ \E i \in 1..MaxPending, outcome \in MailOutcomes : SendWelcomePurchaseReply(i, outcome)
    \/ \E i \in 1..MaxPending, outcome \in MailOutcomes : NotificationReply(i, outcome)
    \/ \E token \in PathTokens : GetVerify(token)
    \/ \E token \in BodyTokens : PostVerify(token)
    \/ \E token \in PathTokens : CheckToken(token)
    \/ \E token \in PathTokens : DeleteToken(token)
    \/ Health
    \/ Tick(TokenTtl)

SpecService == Init /\ [][NextService]_vars

\* await sgMail.send(msg) of the i-th waiting request settles, resolved or
\* rejected, and its handler runs to its reply
MailSettles(i) ==
    \E outcome \in MailOutcomes :
       \/ SendVerificationReply(i, outcome)
       \/ ResendVerificationReply(i, outcome)
       \/ SendWelcomePurchaseReply(i, outcome)
       \/ NotificationReply(i, outcome)

\* SpecServiceFair is SpecService with a mailer that never leaves a call
\* hanging: every mail call eventually resolves or rejects.
SpecServiceFair ==
    SpecService /\ \A i \in 1..MaxPending : WF_vars(MailSettles(i))

(***************************************************************************)
(* Properties of the create requests.                                      *)
(***************************************************************************)
CreateOps == {OpSend, OpResend, OpWelcome}

\* a step in which a create handler hands a message to the mailer
HandsToMailer == Len(pending') = Len(pending) + 1

\* the request that has just been handed to the mailer
Handed == pending'[Len(pending')]

\* a callbackUrl that is a ready-made action link: it carries a one-time code
\* or the verify-email mode marker
IsActionLink(callbackUrl) ==
    /\ callbackUrl \notin {Undefined, ""}
    /\ \/ Includes(callbackUrl, "oobCode=")
       \/ Includes(callbackUrl, "mode=verifyEmail")

\* C1: for every non-empty email, a send-verification request with no
\* callbackUrl whose mail call succeeds returns a token T, and check(T) then
\* answers 200 with the same email, verified = false and expired = false.
C1_CreateReturnsCheckableToken ==
    [][\A i \in 1..Len(pending) :
          (SendVerificationReply(i, "ok") /\ pending[i].callbackUrl \in {Undefined, ""})
          => /\ response'.status = 200
             /\ "token" \in DOMAIN response'.body
             /\ \E T \in Uuids :
                   /\ response'.body.token = T
                   /\ CheckReply(T)'.status = 200
                   /\ CheckReply(T)'.body.email = pending[i].email
                   /\ CheckReply(T)'.body.verified = FALSE
                   /\ CheckReply(T)'.body.expired = FALSE]_vars

\* C2: a create request whose callbackUrl carries oobCode= or mode=verifyEmail
\* hands the mailer the callbackUrl itself as the link, mints no token and
\* leaves the token store exactly as it was.
C2_ActionLinkPassesThrough ==
    [][(HandsToMailer /\ IsActionLink(Handed.callbackUrl))
          => /\ Handed.verificationUrl = Handed.callbackUrl
             /\ Handed.token = Undefined
             /\ issued' = issued
             /\ verificationTokens' = verificationTokens]_vars

C2_Witness ==
    /\ verificationTokens = <<>>
    /\ issued = {}
    /\ \E i \in 1..Len(pending) :
          /\ pending[i].op = OpResend
          /\ pending[i].callbackUrl = "https://idp/a?mode=verifyEmail"
          /\ pending[i].verificationUrl = "https://idp/a?mode=verifyEmail"

\* C3: a create request that takes the fallback branch puts exactly one record:
\* the store gains the record of the new token, {email, userId or null,
\* expiresAt = time of creation + 24h, verified: false}, and every other record
\* stays; a create request that passes a link through, or that fails
\* validation, puts none.
C3_FallbackPutsOneRecord ==
    [][/\ (HandsToMailer /\ Handed.token # Undefined)
          => LET token == Handed.token IN
             /\ token \notin DOMAIN verificationTokens
             /\ DOMAIN verificationTokens' = DOMAIN verificationTokens \cup {token}
             /\ \A t \in DOMAIN verificationTokens :
                   verificationTokens'[t] = verificationTokens[t]
             /\ verificationTokens'[token] =
                   [email |-> Handed.email,
                    userId |-> IF created'[token].userId \in {Undefined, ""}
                               THEN Null ELSE created'[token].userId,
                    expiresAt |-> now + 24 * 60 * 60 * 1000,
                    verified |-> FALSE]
       /\ (HandsToMailer /\ Handed.token = Undefined)
          => verificationTokens' = verificationTokens
       /\ (response' # response /\ response'.op \in CreateOps /\ response'.status = 400)
          => verificationTokens' = verificationTokens
       /\ (\E t \in DOMAIN verificationTokens' : t \notin DOMAIN verificationTokens)
          => HandsToMailer /\ Handed.token # Undefined]_vars

C3_Witness ==
    \E i \in 1..Len(pending) :
       /\ pending[i].op = OpWelcome
       /\ pending[i].token \in DOMAIN verificationTokens
       /\ verificationTokens[pending[i].token] =
             [email |-> "x@y.com", userId |-> Null,
              expiresAt |-> TokenTtl + 1, verified |-> FALSE]

\* C4: a send-verification request with a non-empty email whose mail call
\* succeeds is answered 200 with success: true, the verificationUrl, and the
\* raw token when one was minted.
C4_CreateAnswersWithUrlAndToken ==
    [][\A i \in 1..Len(pending) :
          SendVerificationReply(i, "ok")
          => /\ response'.status = 200
             /\ response'.body.success = TRUE
             /\ "verificationUrl" \in DOMAIN response'.body
             /\ response'.body.verificationUrl = pending[i].verificationUrl
             /\ pending[i].token # Undefined
                => /\ "token" \in DOMAIN response'.body
                   /\ response'.body.token = pending[i].token]_vars

\* C5: a create request whose callbackUrl is a ready-made action link and
\* whose mail call succeeds is answered 200 with success: true and no token,
\* on send-verification and on send-welcome-purchase.
C5_ActionLinkAnswersWithoutToken ==
    [][\A i \in 1..Len(pending) :
          (/\ SendVerificationReply(i, "ok") \/ SendWelcomePurchaseReply(i, "ok")
           /\ IsActionLink(pending[i].callbackUrl))
          => /\ response'.status = 200
             /\ response'.body.success = TRUE
             /\ "token" \notin DOMAIN response'.body]_vars

\* C6: in the fallback branch the link handed to the mailer is
\* callbackUrl + "?token=" + token when a callbackUrl was supplied and
\* FRONTEND_URL + "/verify?token=" + token otherwise, where token is the key
\* under which the record has just been stored.
C6_FallbackLinkCarriesStoredToken ==
    [][(HandsToMailer /\ Handed.token # Undefined)
          => /\ Handed.token \in DOMAIN verificationTokens' \ DOMAIN verificationTokens
             /\ Handed.verificationUrl =
                   IF Handed.callbackUrl \in {Undefined, ""}
                   THEN "http://localhost:3000" \o "/verify?token=" \o Handed.token
                   ELSE Handed.callbackUrl \o "?token=" \o Handed.token]_vars

C6_Witness ==
    /\ \E i \in 1..Len(pending) :
          /\ pending[i].token \in DOMAIN verificationTokens
          /\ pending[i].callbackUrl = "https://app/cb"
          /\ pending[i].verificationUrl = "https://app/cb?token=" \o pending[i].token
    /\ \E t \in DOMAIN verificationTokens :
          \A i \in 1..Len(pending) : pending[i].token # t

\* C7: a create request whose email is absent or empty is answered 400 with
\* success: false, stores no record and hands nothing to the mailer, whatever
\* its userId and callbackUrl.
C7_MissingEmailRejected ==
    [][vars' # vars =>
       \A b \in MissingEmailBodies :
          (\/ SendVerification(b.email, b.userId, b.callbackUrl)
           \/ ResendVerification(b.email, b.userId, b.callbackUrl)
           \/ SendWelcomePurchase(b.email, b.userId, b.firstName, b.callbackUrl))
          => /\ response'.op \in CreateOps
             /\ response'.status = 400
             /\ response'.body.success = FALSE
             /\ verificationTokens' = verificationTokens
             /\ issued' = issued
             /\ pending' = pending]_vars

C7_Witness ==
    /\ response.op = OpResend
    /\ response.status = 400
    /\ response.body.success = FALSE
    /\ verificationTokens = <<>>
    /\ pending = <<>>

(***************************************************************************)
(* Properties of consume.                                                  *)
(***************************************************************************)
\* a step that is a consume request for token t, by path or by body
Consumes(t) == GetVerify(t) \/ PostVerify(t)

\* C8: consume is single-use: for a minted token whose record is in the store
\* (it has not been revoked) and not past its expiry, the first consume is
\* answered 200 and every later one 400 (already verified), never 200 again.
C8_ConsumeIsSingleUse ==
    [][\A t \in Uuids :
          (/\ t \in DOMAIN verificationTokens
           /\ now <= verificationTokens[t].expiresAt
           /\ Consumes(t))
          => IF okConsumes[t] = 0
             THEN response'.status = 200 /\ okConsumes'[t] = 1
             ELSE /\ response'.status = 400
                  /\ response'.body.error = "Email has already been verified"
                  /\ okConsumes'[t] = okConsumes[t]]_vars

C8_Witness ==
    \E t \in DOMAIN verificationTokens :
       /\ okConsumes[t] = 1
       /\ now <= verificationTokens[t].expiresAt
       /\ response.op = OpPostVerify
       /\ response.token = t
       /\ response.status = 400

\* C9: consume of a stored token whose expiresAt is in the past is answered
\* 410 and deletes the record; from then on the token has no record, and every
\* check or consume of it is answered 404.
C9_ExpiredConsumeEvicts ==
    [][\A t \in Uuids :
          /\ (/\ t \in DOMAIN verificationTokens
              /\ now > verificationTokens[t].expiresAt
              /\ Consumes(t))
             => /\ response'.status = 410
                /\ t \notin DOMAIN verificationTokens'
          /\ (t \in issued /\ t \notin DOMAIN verificationTokens)
             => /\ t \notin DOMAIN verificationTokens'
                /\ (Consumes(t) \/ CheckToken(t)) => response'.status = 404]_vars

C9_Witness ==
    /\ response.op = OpGetVerify
    /\ response.status = 410
    /\ response.token \in issued
    /\ response.token \notin DOMAIN verificationTokens
    /\ now > TokenTtl

\* C10: a consume answered 200 sets the record's verified flag, changes
\* nothing else of the record and keeps it in the store; it returns the email
\* and the userId given when the token was created (null when none was given);
\* a check of the token then reports verified = true.
C10_ConsumeMarksAndReturnsIdentity ==
    [][\A t \in Uuids :
          (Consumes(t) /\ okConsumes'[t] = okConsumes[t] + 1)
          => /\ response'.status = 200
             /\ t \in DOMAIN verificationTokens'
             /\ verificationTokens'[t].verified = TRUE
             /\ verificationTokens'[t] = [verificationTokens[t] EXCEPT !.verified = TRUE]
             /\ response'.body.email = created[t].email
             /\ response'.body.userId =
                   IF created[t].userId \in {Undefined, ""} THEN Null ELSE created[t].userId
             /\ CheckReply(t)'.status = 200
             /\ CheckReply(t)'.body.verified = TRUE]_vars

C10_Witness ==
    \E t \in DOMAIN verificationTokens :
       /\ verificationTokens[t].verified
       /\ response.op = OpGetVerify
       /\ response.token = t
       /\ response.status = 200
       /\ response.body.email = "a@b.com"
       /\ response.body.userId = Null

\* C11: a consume, by path or by body, of a non-empty token that has no record
\* in the store is answered 404 with success: false and leaves the store as it
\* was.
C11_ConsumeOfUnknownTokenNotFound ==
    [][\A t \in PathTokens :
          (t \notin DOMAIN verificationTokens /\ Consumes(t))
          => /\ response'.status = 404
             /\ response'.body.success = FALSE
             /\ verificationTokens' = verificationTokens]_vars

C11_Witness ==
    /\ response.op = OpPostVerify
    /\ response.token = "bogus"
    /\ response.status = 404
    /\ DOMAIN verificationTokens # {}

\* C12: for every store, clock value and non-empty token, the consume by path
\* and the consume by body give the same status, the same response body and
\* the same resulting store: whatever one of them does in a step, the other
\* could have done from the same state.
C12_ConsumeSurfacesAgree ==
    [][\A t \in PathTokens :
          /\ GetVerify(t)
             => \E r \in {response'}, m \in {verificationTokens'} :
                   ENABLED (/\ PostVerify(t)
                            /\ response'.status = r.status
                            /\ response'.body = r.body
                            /\ verificationTokens' = m)
          /\ PostVerify(t)
             => \E r \in {response'}, m \in {verificationTokens'} :
                   ENABLED (/\ GetVerify(t)
                            /\ response'.status = r.status
                            /\ response'.body = r.body
                            /\ verificationTokens' = m)]_vars

C12_Witness ==
    /\ response.op = OpPostVerify
    /\ response.status = 410
    /\ response.token \in issued
    /\ response.token \notin DOMAIN verificationTokens

\* C13: a consume by body whose token is absent or empty is answered 400 with
\* success: false and "Token is required", whatever the store holds, and
\* changes no record of the store.
C13_MissingTokenRejected ==
    [][\A t \in {Undefined, ""} :
          PostVerify(t)
          => /\ response'.status = 400
             /\ response'.body = [success |-> FALSE, error |-> "Token is required"]
             /\ verificationTokens' = verificationTokens]_vars

C13_Witness ==
    /\ response.op = OpPostVerify
    /\ response.token = ""
    /\ response.status = 400
    /\ DOMAIN verificationTokens # {}

(***************************************************************************)
(* Properties of inspect and revoke.                                       *)
(***************************************************************************)
\* the status codes a token handler answers with
TokenStatuses == {200, 400, 404, 410}

\* the stores a consume of token u can leave behind
StoresAfterConsume(u) ==
    {verificationTokens, [x \in DOMAIN verificationTokens \ {u} |-> verificationTokens[x]]}
    \cup {[verificationTokens EXCEPT ![x].verified = TRUE] : x \in DOMAIN verificationTokens \cap {u}}

\* C14: inspect never changes the store, whether the token is present, absent,
\* verified or expired, and it leaves every consume with the outcome (status and
\* resulting store) it had before the inspect.
C14_InspectLeavesStore ==
    [][\A t \in PathTokens :
          CheckToken(t)
          => /\ verificationTokens' = verificationTokens
             /\ \A u \in PathTokens, s \in TokenStatuses :
                   \A m \in StoresAfterConsume(u) :
                      (ENABLED (/\ Consumes(u)
                                /\ response'.status = s
                                /\ verificationTokens' = m))'
                      = ENABLED (/\ Consumes(u)
                                 /\ response'.status = s
                                 /\ verificationTokens' = m)]_vars

C14_Witness ==
    /\ response.op = OpCheck
    /\ response.status = 200
    /\ response.body.expired = TRUE
    /\ response.token \in DOMAIN verificationTokens
    /\ verificationTokens[response.token].verified = FALSE
    /\ now > verificationTokens[response.token].expiresAt

\* C15: inspect answers 404 when the token has no record; otherwise 200 with
\* the record's email, its current verified flag, its expiresAt, and
\* expired = (now > expiresAt), also for a record that is past its expiry and
\* still in the store.
C15_InspectReportsRecord ==
    [][\A t \in PathTokens :
          CheckToken(t)
          => IF t \notin DOMAIN verificationTokens
             THEN response'.status = 404 /\ response'.body.success = FALSE
             ELSE /\ response'.status = 200
                  /\ response'.body.success = TRUE
                  /\ response'.body.email = verificationTokens[t].email
                  /\ response'.body.verified = verificationTokens[t].verified
                  /\ response'.body.expiresAt = ToISOString(verificationTokens[t].expiresAt)
                  /\ response'.body.expired = (now > verificationTokens[t].expiresAt)]_vars

C15_Witness ==
    /\ response.op = OpCheck
    /\ response.status = 200
    /\ response.body.email = "x@y.com"
    /\ response.body.verified = TRUE
    /\ response.body.expired = FALSE
    /\ response.body.expiresAt = ToISOString(TokenTtl + 1)
    /\ now = TokenTtl + 1

\* C16: revoke of a token with no record is answered 404 and leaves the store
\* as it was; revoke of a token with a record is answered 200 and removes that
\* record and no other; from then on the token has no record, and every check,
\* consume or revoke of it is answered 404.
C16_RevokeRemovesForGood ==
    [][\A t \in PathTokens :
          /\ DeleteToken(t)
             => IF t \in DOMAIN verificationTokens
                THEN /\ response'.status = 200
                     /\ response'.body.success = TRUE
                     /\ verificationTokens' =
                           [x \in DOMAIN verificationTokens \ {t} |-> verificationTokens[x]]
                ELSE /\ response'.status = 404
                     /\ response'.body.success = FALSE
                     /\ verificationTokens' = verificationTokens
          /\ (t \in issued /\ t \notin DOMAIN verificationTokens)
             => /\ t \notin DOMAIN verificationTokens'
                /\ (Consumes(t) \/ CheckToken(t) \/ DeleteToken(t))
                   => response'.status = 404]_vars

C16_Witness ==
    /\ response.op = OpCheck
    /\ response.status = 404
    /\ response.token \in issued
    /\ now = 0

\* C17: revoke is unconditional: a present record is removed and the answer is
\* 200 whether the record is unverified, already verified, or past its
\* expiresAt; revoke never answers 410 (expired) or 400 (already verified).
C17_RevokeIsUnconditional ==
    [][\A t \in PathTokens :
          DeleteToken(t)
          => /\ response'.status \in {200, 404}
             /\ \A verified \in BOOLEAN, expired \in BOOLEAN :
                   (/\ t \in DOMAIN verificationTokens
                    /\ verificationTokens[t].verified = verified
                    /\ (now > verificationTokens[t].expiresAt) = expired)
                   => /\ response'.status = 200
                      /\ t \notin DOMAIN verificationTokens']_vars

C17_Witness ==
    /\ response.op = OpDelete
    /\ response.status = 200
    /\ okConsumes[response.token] = 1
    /\ now > TokenTtl

(***************************************************************************)
(* Properties of the records over time.                                    *)
(***************************************************************************)
\* C18: once the verified flag of a record is true, it is true in every later
\* state in which the record of that token is still in the store: no step
\* sets it back to false.
C18_VerifiedNeverReverts ==
    [][\A t \in DOMAIN verificationTokens :
          (verificationTokens[t].verified /\ t \in DOMAIN verificationTokens')
          => verificationTokens'[t].verified]_vars

C18_Witness ==
    \E t \in DOMAIN verificationTokens :
       /\ verificationTokens[t].verified
       /\ okConsumes[t] = 1
       /\ now > verificationTokens[t].expiresAt
       /\ Cardinality(issued) = 2

\* C19: the token minted by a create request is in no record of the store (it
\* was never handed out before), so the request adds one record and leaves
\* every existing record, verified ones included, exactly as it was; repeated
\* requests for the same email each add a record and keep the earlier ones.
C19_MintedTokenIsNew ==
    [][(HandsToMailer /\ Handed.token # Undefined)
          => /\ Handed.token \notin issued
             /\ Handed.token \notin DOMAIN verificationTokens
             /\ DOMAIN verificationTokens' = DOMAIN verificationTokens \cup {Handed.token}
             /\ \A t \in DOMAIN verificationTokens :
                   /\ verificationTokens'[t] = verificationTokens[t]
                   /\ verificationTokens[t].email = Handed.email
                      => verificationTokens'[t].verified = verificationTokens[t].verified]_vars

C19_Witness ==
    \E t1 \in DOMAIN verificationTokens, t2 \in DOMAIN verificationTokens :
       /\ t1 # t2
       /\ verificationTokens[t1].email = verificationTokens[t2].email
       /\ verificationTokens[t1].verified
       /\ ~verificationTokens[t2].verified
       /\ verificationTokens[t1].expiresAt < verificationTokens[t2].expiresAt
       /\ \E i \in 1..Len(pending) : pending[i].token = t2

\* the reply step of the i-th waiting create request after a rejected mail call
MailFails(i) ==
    \/ SendVerificationReply(i, "fail")
    \/ ResendVerificationReply(i, "fail")
    \/ SendWelcomePurchaseReply(i, "fail")

\* C20: when the mail call of a create request fails, the request is answered
\* once, with 500, success: false and the provider's message as details; the
\* store is left as it was, and the record the request stored in the fallback
\* branch is still there: a check of its token answers 200 and a consume of
\* it succeeds.
C20_MailFailureKeepsRecord ==
    [][\A i \in 1..Len(pending) :
          MailFails(i)
          => /\ response'.status = 500
             /\ response'.body.success = FALSE
             /\ response'.body.details = ProviderError
             /\ Len(pending') = Len(pending) - 1
             /\ verificationTokens' = verificationTokens
             /\ \A T \in {pending[i].token} \ {Undefined} :
                   /\ T \in DOMAIN verificationTokens'
                   /\ CheckReply(T)'.status = 200
                   /\ CheckReply(T)'.body.email \in {pending[i].email}
                   /\ (ENABLED (Consumes(T) /\ response'.status = 200))']_vars

C20_Witness ==
    /\ response.op = OpWelcome
    /\ response.status = 500
    /\ response.mail = "fail"
    /\ response.body.details = ProviderError
    /\ pending = <<>>
    /\ Cardinality(issued) = 1
    /\ \E t \in issued :
          /\ t \in DOMAIN verificationTokens
          /\ verificationTokens[t].verified = FALSE
          /\ verificationTokens[t].email = "a@b.com"

(***************************************************************************)
(* Properties across tokens and across handlers.                           *)
(***************************************************************************)
\* a step in which a send-verification request fails: at validation, or in
\* the catch clause after the mail call
FailingCreate ==
    \/ /\ \E b \in LifecycleBodies : SendVerification(b.email, b.userId, b.callbackUrl)
       /\ ~HandsToMailer
    \/ \E i \in 1..Len(pending), outcome \in MailOutcomes :
          SendVerificationReply(i, outcome) /\ response'.status = 500

\* C21: a consume, inspect or revoke of token T, whatever its answer, leaves
\* the record of every other token in the store and unchanged; a create
\* request that fails changes no record, and the step in which a create
\* request stores its record changes no record that was there.
C21_OtherRecordsUntouched ==
    [][/\ \A t \in PathTokens :
             (Consumes(t) \/ CheckToken(t) \/ DeleteToken(t))
             => \A u \in DOMAIN verificationTokens \ {t} :
                   /\ u \in DOMAIN verificationTokens'
                   /\ verificationTokens'[u] = verificationTokens[u]
       /\ FailingCreate => verificationTokens' = verificationTokens
       /\ HandsToMailer
          => \A u \in DOMAIN verificationTokens :
                /\ u \in DOMAIN verificationTokens'
                /\ verificationTokens'[u] = verificationTokens[u]]_vars

C21_Witness ==
    /\ response.op = OpDelete
    /\ response.status = 200
    /\ response.token \notin DOMAIN verificationTokens
    /\ \E u \in DOMAIN verificationTokens :
          /\ verificationTokens[u].verified
          /\ verificationTokens[u].email = "x@y.com"
          /\ verificationTokens[u].userId = "u1"

\* C23: a send-welcome-purchase request whose email or firstName is absent or
\* empty is answered 400 with success: false, stores no record and hands
\* nothing to the mailer.
C23_WelcomeValidates ==
    [][vars' # vars =>
       \A b \in MissingEmailBodies \cup MissingFirstNameBodies :
          SendWelcomePurchase(b.email, b.userId, b.firstName, b.callbackUrl)
          => /\ response'.op = OpWelcome
             /\ response'.status = 400
             /\ response'.body.success = FALSE
             /\ verificationTokens' = verificationTokens
             /\ issued' = issued
             /\ pending' = pending]_vars

C23_Witness ==
    /\ response.op = OpWelcome
    /\ response.status = 400
    /\ response.body.success = FALSE
    /\ response.body.error = "Email and firstName are required"
    /\ issued = {}
    /\ pending = <<>>

\* C24: the verification flow and the welcome flow make the same choice for
\* every callbackUrl: whenever send-verification passes the caller's link
\* through (or mints a token), send-welcome-purchase with the same body does
\* the same, and the other way round.
C24_FlowsDecideAlike ==
    [][\A b \in ValidBodies, passes \in BOOLEAN :
          /\ (/\ SendVerification(b.email, b.userId, b.callbackUrl)
               /\ (Handed.token = Undefined) = passes)
             => ENABLED (/\ SendWelcomePurchase(b.email, b.userId, b.firstName, b.callbackUrl)
                         /\ (Handed.token = Undefined) = passes)
          /\ (/\ SendWelcomePurchase(b.email, b.userId, b.firstName, b.callbackUrl)
               /\ (Handed.token = Undefined) = passes)
             => ENABLED (/\ SendVerification(b.email, b.userId, b.callbackUrl)
                         /\ (Handed.token = Undefined) = passes)]_vars

\* C26: a stored record is written at most once after its creation, and only
\* in its verified flag: from its creation until its removal its email, userId
\* and expiresAt are the ones its create request gave it, and the only change
\* it sees is the first successful consume setting verified.
C26_RecordChangesOnlyOnce ==
    [][/\ \A t \in DOMAIN verificationTokens \cap DOMAIN verificationTokens' :
             /\ verificationTokens'[t].email = verificationTokens[t].email
             /\ verificationTokens'[t].userId = verificationTokens[t].userId
             /\ verificationTokens'[t].expiresAt = verificationTokens[t].expiresAt
             /\ verificationTokens'[t] # verificationTokens[t]
                => /\ ~verificationTokens[t].verified
                   /\ verificationTokens'[t].verified
                   /\ okConsumes[t] = 0
                   /\ okConsumes'[t] = 1
       /\ \A t \in DOMAIN verificationTokens' \ DOMAIN verificationTokens :
             /\ verificationTokens'[t].email = created'[t].email
             /\ verificationTokens'[t].expiresAt = now + 24 * 60 * 60 * 1000
             /\ verificationTokens'[t].verified = FALSE]_vars

C26_Witness ==
    /\ response.op = OpPostVerify
    /\ response.status = 200
    /\ now = 1
    /\ response.token \in DOMAIN verificationTokens
    /\ verificationTokens[response.token] =
          [email |-> "x@y.com", userId |-> "u1", expiresAt |-> TokenTtl, verified |-> TRUE]

\* C28: consume tests not-found, then expired, then already-verified: a
\* consume of a record that is verified and past its expiresAt is answered 410
\* and evicts the record; it is not answered 400.
C28_ExpiryBeforeAlreadyVerified ==
    [][\A t \in Uuids :
          (/\ t \in DOMAIN verificationTokens
           /\ verificationTokens[t].verified
           /\ now > verificationTokens[t].expiresAt
           /\ Consumes(t))
          => /\ response'.status = 410
             /\ response'.body.error = "Token has expired"
             /\ t \notin DOMAIN verificationTokens']_vars

C28_Witness ==
    /\ response.op = OpGetVerify
    /\ response.status = 410
    /\ okConsumes[response.token] = 1
    /\ response.token \notin DOMAIN verificationTokens

\* C29: inspect and consume agree on expiry at every clock value: for every
\* stored record, inspect reports expired = true exactly when a consume at the
\* same instant is answered 410, which is exactly when now > expiresAt; at
\* now = expiresAt inspect reports expired = false and a consume of an
\* unverified record is answered 200.
C29_InspectAndConsumeAgreeOnExpiry ==
    \A t \in DOMAIN verificationTokens :
       /\ CheckReply(t).body.expired = (now > verificationTokens[t].expiresAt)
       /\ CheckReply(t).body.expired = ENABLED (GetVerify(t) /\ response'.status = 410)
       /\ CheckReply(t).body.expired = ENABLED (PostVerify(t) /\ response'.status = 410)
       /\ now = verificationTokens[t].expiresAt
          => /\ CheckReply(t).body.expired = FALSE
             /\ ~verificationTokens[t].verified
                => /\ ENABLED (GetVerify(t) /\ response'.status = 200)
                   /\ ENABLED (PostVerify(t) /\ response'.status = 200)

C29_Witness ==
    /\ response.op = OpGetVerify
    /\ response.status = 200
    /\ response.token \in DOMAIN verificationTokens
    /\ now = verificationTokens[response.token].expiresAt

\* C30: under every interleaving of requests (a handler runs in one step, but
\* for the create handlers waiting on the mail call), at most one consume of a
\* minted token is ever answered 200, by path, by body or mixed.
C30_AtMostOneSuccessfulConsume ==
    \A t \in PathTokens : okConsumes[t] <= 1

C30_Witness ==
    /\ \A t \in Uuids : okConsumes[t] = 1
    /\ response.op = OpGetVerify
    /\ response.status = 400
    /\ Len(pending) = 1

(***************************************************************************)
(* Properties of the health report and of the response shape.              *)
(***************************************************************************)
\* the records that are not past their expiresAt
LiveTokens == {t \in DOMAIN verificationTokens : now <= verificationTokens[t].expiresAt}

\* C25 as stated: GET /health always answers 200 with status "ok" and
\* tokensInMemory equal to the number of live entries of the store, a record
\* past its expiresAt being dead even before it is evicted, and never changes
\* the store.
C25_HealthCountsLiveEntries ==
    [][Health
       => /\ response'.status = 200
          /\ response'.body.status = "ok"
          /\ response'.body.tokensInMemory = Cardinality(LiveTokens)
          /\ verificationTokens' = verificationTokens]_vars

\* C25 as amended: GET /health always answers 200 with status "ok" and
\* tokensInMemory equal to the number of entries in the store at that moment,
\* the records past their expiresAt that are not yet evicted included, and
\* never changes the store.
C25_HealthCountsStoredEntries ==
    [][Health
       => /\ response'.status = 200
          /\ response'.body.status = "ok"
          /\ response'.body.tokensInMemory = Cardinality(DOMAIN verificationTokens)
          /\ verificationTokens' = verificationTokens]_vars

C25_Witness ==
    /\ response.op = OpHealth
    /\ response.status = 200
    /\ response.body.tokensInMemory = 2
    /\ Cardinality(LiveTokens) = 1

\* C22 as stated: every response of every endpoint carries a boolean success
\* field, true on the success outcomes and false on every error outcome.
C22_EveryResponseCarriesSuccess ==
    response.op # "none"
    => /\ "success" \in DOMAIN response.body
       /\ response.body.success \in BOOLEAN
       /\ response.body.success = (response.status = 200)

\* C22 as amended: every response of every endpoint other than GET /health
\* carries a boolean success field, true on the success outcomes and false on
\* every error outcome; the health report carries status "ok" and no success
\* field.
C22_EveryResponseButHealthCarriesSuccess ==
    /\ response.op \notin {"none", OpHealth}
       => /\ "success" \in DOMAIN response.body
          /\ response.body.success \in BOOLEAN
          /\ response.body.success = (response.status = 200)
    /\ response.op = OpHealth
       => /\ "success" \notin DOMAIN response.body
          /\ response.body.status = "ok"

C22_Witness ==
    /\ response.op = OpInvoice
    /\ response.status = 200
    /\ response.body.success = TRUE
    /\ DOMAIN verificationTokens # {}

(***************************************************************************)
(* Validation of the mail handlers.                                        *)
(***************************************************************************)
\* the fields the interface lists as required are all there and not empty
TransferRequiredPresent(b) ==
    /\ Truthy(Field(b, "email"))
    /\ Truthy(Field(b, "transferId"))
    /\ "trackerDetails" \in DOMAIN b
    /\ Truthy(Field(b.trackerDetails, "imei"))
    /\ Truthy(Field(b.trackerDetails, "vehicleName"))

DeviceAddedRequiredPresent(b) ==
    /\ Truthy(Field(b, "email"))
    /\ Truthy(Field(b, "firstName"))
    /\ Truthy(Field(b, "vehicleName"))
    /\ Truthy(Field(b, "planName"))

InvoiceRequiredPresent(b) ==
    /\ Truthy(Field(b, "email"))
    /\ Truthy(Field(b, "invoiceId"))
    /\ Truthy(Field(b, "amount"))
    /\ Truthy(Field(b, "invoiceUrl"))

\* the answer of a request that is turned away at validation
RejectedBy(op) ==
    /\ response'.op = op
    /\ response'.status = 400
    /\ pending' = pending

\* C27: every mail-triggering endpoint validates before it sends: a request
\* that lacks a required field (imei or vehicleName inside trackerDetails for
\* the transfer notification, planName for device-added, included) is answered
\* 400 and hands nothing to the mailer.
C27_RequiredFieldsValidated ==
    [][/\ \A b \in TransferBodies :
             (SendTransferNotification(b) /\ ~TransferRequiredPresent(b))
             => RejectedBy(OpTransfer)
       /\ \A b \in DeviceAddedBodies :
             (SendDeviceAdded(b) /\ ~DeviceAddedRequiredPresent(b))
             => RejectedBy(OpDeviceAdded)
       /\ \A b \in InvoiceBodies :
             (SendInvoice(b) /\ ~InvoiceRequiredPresent(b))
             => RejectedBy(OpInvoice)
       /\ \A b \in ServiceBodies :
             /\ (SendVerification(b.email, b.userId, b.callbackUrl) /\ ~Truthy(b.email))
                => RejectedBy(OpSend)
             /\ (ResendVerification(b.email, b.userId, b.callbackUrl) /\ ~Truthy(b.email))
                => RejectedBy(OpResend)
             /\ (/\ SendWelcomePurchase(b.email, b.userId, b.firstName, b.callbackUrl)
                  /\ (~Truthy(b.email) \/ ~Truthy(b.firstName)))
                => RejectedBy(OpWelcome)]_vars

(***************************************************************************)
(* Properties of removal, of answers, and of the resend alias.             *)
(***************************************************************************)
\* C32: a record leaves the store only in a revoke of its token or in a
\* consume of its token made after its expiresAt; a create, an inspect, a
\* health report, the passing of time, and a consume answered 200 or 400
\* remove no record, so a record that is not consumed or revoked again stays
\* in the store, expired or not.
C32_RemovedOnlyByRevokeOrExpiredConsume ==
    [][/\ \A t \in DOMAIN verificationTokens :
             t \notin DOMAIN verificationTokens'
             => \/ DeleteToken(t)
                \/ Consumes(t) /\ now > verificationTokens[t].expiresAt
       /\ (\/ Health
           \/ \E t \in PathTokens : CheckToken(t)
           \/ \E d \in {1, TokenTtl} : Tick(d)
           \/ HandsToMailer
           \/ FailingCreate
           \/ \E t \in BodyTokens : Consumes(t) /\ response'.status \in {200, 400})
          => DOMAIN verificationTokens \subseteq DOMAIN verificationTokens']_vars

C32_Witness ==
    /\ response.op = OpHealth
    /\ response.body.tokensInMemory = 1
    /\ now = 2 * TokenTtl
    /\ \E t \in DOMAIN verificationTokens :
          /\ verificationTokens[t].expiresAt = TokenTtl
          /\ verificationTokens[t].verified

\* the first step of a create handler over body b, seen from outside: what it
\* answers, what it leaves in the store and what it hands to the mailer
SameFirstStep(r, vt, pd) ==
    /\ response' = r
    /\ verificationTokens' = vt
    /\ pending' = [pd EXCEPT ![Len(pd)].op = OpResend]

\* C34: resend-verification is an alias of send-verification: for the same
\* body and store, whatever send-verification does in its first step (answer
\* 400, pass the link through, or mint a token, store its record and build the
\* link), resend-verification can do too, with the same record under the same
\* token and the same link; and for the same mail outcome the two answer with
\* the same status code.
C34_ResendIsAlias ==
    [][/\ \A b \in CreateBodies :
             SendVerification(b.email, b.userId, b.callbackUrl)
             => IF HandsToMailer
                THEN \E vt \in {verificationTokens'}, pd \in {pending'} :
                        ENABLED (/\ ResendVerification(b.email, b.userId, b.callbackUrl)
                                 /\ SameFirstStep(response, vt, pd))
                ELSE \E st \in {response'.status} :
                        ENABLED (/\ ResendVerification(b.email, b.userId, b.callbackUrl)
                                 /\ ~HandsToMailer
                                 /\ response'.status = st)
       /\ \A i \in 1..Len(pending), outcome \in MailOutcomes :
             (/\ ResendVerificationReply(i, outcome)
              /\ response.op = OpSend
              /\ response.mail = outcome)
             => response'.status = response.status]_vars

\* a create request is answered success with token T in this step
AnswersSuccessWith(T) ==
    /\ Len(pending') < Len(pending)
    /\ response'.op \in CreateOps
    /\ response'.status = 200
    /\ "token" \in DOMAIN response'.body
    /\ response'.body.token = T

\* C31 as stated: whenever a create request answers success with a token T,
\* the store holds a record for T at the moment of the response, whatever
\* other requests ran while its mail call was pending.
C31_SuccessTokenIsStored ==
    [][\A T \in Uuids :
          AnswersSuccessWith(T) => T \in DOMAIN verificationTokens']_vars

\* C31 amended: a create request stores the record of its token T before its
\* mail call; while the call is pending the record leaves the store only in a
\* revoke of T or a consume of T made after its expiresAt; the success answer
\* carries that same T, and the store holds T's record at that moment exactly
\* when it held it just before, the answer itself touching nothing.
C31_SuccessTokenIsStoredUnlessRemoved ==
    [][/\ HandsToMailer /\ Handed.token # Undefined
          => /\ Handed.token \in DOMAIN verificationTokens'
             /\ verificationTokens'[Handed.token].email = Handed.email
       /\ \A i \in 1..Len(pending) :
             \A T \in {pending[i].token} \ {Undefined} :
                /\ (T \in DOMAIN verificationTokens /\ T \notin DOMAIN verificationTokens')
                   => \/ DeleteToken(T)
                      \/ Consumes(T) /\ now > verificationTokens[T].expiresAt
                /\ T \notin DOMAIN verificationTokens
                   => T \notin DOMAIN verificationTokens'
       /\ \A T \in Uuids :
             AnswersSuccessWith(T)
             => /\ \E i \in 1..Len(pending) :
                      pending[i].token = T /\ pending' = RemoveAt(pending, i)
                /\ T \in issued
                /\ verificationTokens' = verificationTokens]_vars

C31_Witness ==
    /\ response.op = OpSend
    /\ response.status = 200
    /\ response.body.token \in DOMAIN verificationTokens
    /\ \E t \in issued : t \notin DOMAIN verificationTokens
    /\ pending = <<>>

\* the request of this step is answered in this step
AnsweredNow(op, statuses) ==
    /\ pending' = pending
    /\ response'.op = op
    /\ response'.status \in statuses

\* the request of this step is left waiting on its mail call, unanswered
Deferred(op) ==
    /\ pending' = Append(pending, Handed)
    /\ Handed.op = op
    /\ response' = response

\* a waiting request is answered in this step and waits no longer
AnsweredLate ==
    \E i \in 1..Len(pending) :
       /\ pending' = RemoveAt(pending, i)
       /\ response'.op = pending[i].op
       /\ response'.status \in {200, 500}
       /\ response'.mail \in MailOutcomes

\* the request that has waited longest is answered in this step
AnswersOldest ==
    /\ pending # <<>>
    /\ pending' = Tail(pending)
    /\ response'.op = Head(pending).op

\* C33: every request receives exactly one response.  A handler step either
\* answers its request (validation failure 400, and for the token handlers
\* 200, 400, 404 or 410) or leaves it waiting on the mail call without
\* answering; a waiting request stops waiting only by being answered, with 200
\* or 500, one request per step; and when every mail call eventually resolves
\* or rejects, no request waits forever: again and again either no request is
\* waiting or the oldest waiting request is answered.
C33_EveryRequestAnsweredOnce ==
    /\ [][/\ \A b \in ServiceBodies :
               /\ SendVerification(b.email, b.userId, b.callbackUrl)
                  => (AnsweredNow(OpSend, {400}) \/ Deferred(OpSend))
               /\ ResendVerification(b.email, b.userId, b.callbackUrl)
                  => (AnsweredNow(OpResend, {400}) \/ Deferred(OpResend))
               /\ SendWelcomePurchase(b.email, b.userId, b.firstName, b.callbackUrl)
                  => (AnsweredNow(OpWelcome, {400}) \/ Deferred(OpWelcome))
          /\ \A op \in {OpTransfer, OpDeviceAdded, OpInvoice} :
               /\ (pending' = pending /\ response' # response /\ response'.op = op)
                  => AnsweredNow(op, {400})
               /\ (HandsToMailer /\ Handed.op = op) => Deferred(op)
          /\ \A t \in PathTokens :
               /\ GetVerify(t) => AnsweredNow(OpGetVerify, {200, 400, 404, 410})
               /\ CheckToken(t) => AnsweredNow(OpCheck, {200, 404})
               /\ DeleteToken(t) => AnsweredNow(OpDelete, {200, 404})
          /\ \A t \in BodyTokens :
               PostVerify(t) => AnsweredNow(OpPostVerify, {200, 400, 404, 410})
          /\ Health => AnsweredNow(OpHealth, {200})
          /\ (pending' # pending /\ Len(pending') <= Len(pending)) => AnsweredLate]_vars
    /\ \/ []<>(pending = <<>>)
       \/ []<><<AnswersOldest>>_vars

C33_Witness ==
    /\ pending = <<>>
    /\ response.op = OpResend
    /\ response.status = 200
    /\ Cardinality(DOMAIN verificationTokens) = 1

====
